---- MODULE Spec2Model ----
(***************************************************************************)
(* A model of official/mnist/mnist.py: the layer chain built by            *)
(* create_model, the estimator-spec selection of model_fn, the estimator   *)
(* and strategy selection of construct_estimator, and the sequence of      *)
(* framework calls made by main.                                           *)
(*                                                                         *)
(* Framework objects (layers, estimators, specs, strategies) are records   *)
(* holding the constructor name and the arguments the script passes.       *)
(* Python's None is the string "None"; a local not yet assigned holds the  *)
(* empty value of its type.                                                *)
(***************************************************************************)
EXTENDS Integers, Sequences, FiniteSets, TLC

None == "None"

\* ---------------------------------------------------------------- bounds
\* Largest image side length handed to create_model.
MaxImageSize == 28
\* Largest --num_gpus value.
MaxGpus == 2
\* Largest --batch_size value.
MaxBatch == 2
\* Largest --train_epochs value.
MaxTrainEpochs == 3
\* Largest --epochs_between_evals value.
MaxBetweenEvals == 2

\* ------------------------------------------------------ program constants
\* mnist_dataset.IMAGE_SIZE, the default of create_model's image_size:
\* "MNIST images are 28x28 pixels".
IMAGE_SIZE == 28

ModeKeys == {"train", "eval", "infer"}
TRAIN == "train"
EVAL == "eval"
PREDICT == "infer"

DataFormats == {"channels_first", "channels_last"}

VARIABLES
  \* create_model called on its own
  cm_pc,         \* "call" | "returned" | "raised" | "idle"
  cm_args,       \* [data_format, image_size]
  cm_result,     \* the Sequential's layer list; <<>> before the return
  cm_error,      \* None | "AssertionError"
  \* model_fn called on its own
  mf_pc,         \* "guard" | "create" | "branch" | "returned" | "raised" | "idle"
  mf_args,       \* [features, labels, mode, params, has_strategy]
  mf_model,      \* the layer list of the model created at line 106; <<>> before
  mf_image,      \* the local `image`
  mf_result,     \* the returned estimator spec; NoSpec before the return
  mf_error,      \* None | "RuntimeError"
  \* main
  pc,            \* "construct" | "range" | "loop" | "train" | "export" | "done" | "raised" | "idle"
  flags,         \* the parsed command line
  use_tpu,       \* main's local use_tpu
  mnist_classifier,  \* the estimator; NoEstimator before line 226
  cycles,        \* the length of the range at line 233; 0 before
  calls,         \* the framework calls made on the estimator so far, in order
  error          \* None | "ZeroDivisionError" | "NameError"

cmVars == <<cm_pc, cm_args, cm_result, cm_error>>
mfVars == <<mf_pc, mf_args, mf_model, mf_image, mf_result, mf_error>>
mainVars == <<pc, flags, use_tpu, mnist_classifier, cycles, calls, error>>
vars == <<cm_pc, cm_args, cm_result, cm_error,
          mf_pc, mf_args, mf_model, mf_image, mf_result, mf_error,
          pc, flags, use_tpu, mnist_classifier, cycles, calls, error>>

\* ------------------------------------------------------------ create_model

Layer(type, units, kernel, activation, data_format, shape, rate) ==
  [layer |-> type, units |-> units, kernel |-> kernel, activation |-> activation,
   data_format |-> data_format, shape |-> shape, rate |-> rate]

\* Lines 56-60: the input shape; the else branch asserts 'channels_last'.
input_shape(data_format, image_size) ==
  IF data_format = "channels_first"
    THEN <<1, image_size, image_size>>
    ELSE <<image_size, image_size, 1>>

\* Line 59: the assertion of the else branch fails.
create_model_asserts(data_format) ==
  data_format # "channels_first" /\ data_format # "channels_last"

\* Lines 63-64: the one pooling layer object used twice in the chain.
max_pool(data_format) ==
  Layer("MaxPooling2D", 0, 2, None, data_format, <<>>, None)

\* A chain with the dropout layer placed after the output layer.
create_model_swapped(data_format, image_size) ==
  << Layer("Reshape", 0, 0, None, None, input_shape(data_format, image_size), None),
     Layer("Conv2D", 32, 5, "relu", data_format, <<>>, None),
     max_pool(data_format),
     Layer("Conv2D", 64, 5, "relu", data_format, <<>>, None),
     max_pool(data_format),
     Layer("Flatten", 0, 0, None, None, <<>>, None),
     Layer("Dense", 1024, 0, "relu", None, <<>>, None),
     Layer("Dense", 10, 0, None, None, <<>>, None),
     Layer("Dropout", 0, 0, None, None, <<>>, "0.4") >>

\* Lines 67-88: the layer list handed to tf.keras.Sequential.
create_model(data_format, image_size) ==
  << Layer("Reshape", 0, 0, None, None, input_shape(data_format, image_size), None),
     Layer("Conv2D", 32, 5, "relu", data_format, <<>>, None),
     max_pool(data_format),
     Layer("Conv2D", 64, 5, "relu", data_format, <<>>, None),
     max_pool(data_format),
     Layer("Flatten", 0, 0, None, None, <<>>, None),
     Layer("Dense", 1024, 0, "relu", None, <<>>, None),
     Layer("Dropout", 0, 0, None, None, <<>>, "0.4"),
     Layer("Dense", 10, 0, None, None, <<>>, None) >>

\* create_model returns its Sequential.
cm_return ==
  /\ cm_pc = "call"
  /\ ~create_model_asserts(cm_args.data_format)
  /\ cm_result' = create_model(cm_args.data_format, cm_args.image_size)
  /\ cm_pc' = "returned"
  /\ UNCHANGED <<cm_args, cm_error, mfVars, mainVars>>

\* create_model raises at line 59.
cm_raise ==
  /\ cm_pc = "call"
  /\ create_model_asserts(cm_args.data_format)
  /\ cm_error' = "AssertionError"
  /\ cm_pc' = "raised"
  /\ UNCHANGED <<cm_args, cm_result, mfVars, mainVars>>

\* ---------------------------------------------------------------- model_fn

\* An estimator spec: the constructor and the keyword arguments it was given.
NoSpec ==
  [kind |-> None, mode |-> None, args |-> {}, predictions |-> {},
   export_outputs |-> {}, metrics |-> {}, accuracy |-> None]

\* Lines 91-97: the metrics dictionary; its one key is "accuracy".
metric_fn(has_strategy) ==
  [keys |-> {"accuracy"},
   accuracy |-> IF has_strategy THEN "no_op" ELSE "metrics.accuracy"]

\* A guard that lets every mode through.
tpu_predict_unguarded(tpu, mode) == FALSE

\* Line 103: the condition of the first guard.
tpu_predict_unsupported(tpu, mode) == tpu /\ mode = PREDICT

\* A spec constructor choice that ignores use_tpu.
spec_kind_plain(tpu) == "EstimatorSpec"

\* Lines 145-147 and 152-158: the spec constructor chosen for TRAIN and EVAL.
spec_kind(tpu) == IF tpu THEN "TPUEstimatorSpec" ELSE "EstimatorSpec"

\* Lines 116-125: the spec returned for PREDICT.
predict_spec(mode) ==
  [kind |-> "EstimatorSpec", mode |-> mode,
   args |-> {"mode", "predictions", "export_outputs"},
   predictions |-> {"classes", "probabilities"},
   export_outputs |-> {"classify"},
   metrics |-> {}, accuracy |-> None]

\* Lines 140-147: the spec returned for TRAIN.
train_spec(tpu, mode) ==
  [kind |-> spec_kind(tpu), mode |-> mode,
   args |-> {"mode", "loss", "train_op"},
   predictions |-> {}, export_outputs |-> {},
   metrics |-> {}, accuracy |-> None]

\* Lines 150-162: the spec returned for EVAL. The TPU spec is handed metric_fn
\* itself, the plain spec the dictionary metric_fn returns.
eval_spec(tpu, mode, has_strategy) ==
  [kind |-> spec_kind(tpu), mode |-> mode,
   args |-> {"mode", "loss", IF tpu THEN "eval_metrics" ELSE "eval_metric_ops"},
   predictions |-> {}, export_outputs |-> {},
   metrics |-> metric_fn(has_strategy).keys,
   accuracy |-> IF tpu THEN "metric_fn" ELSE metric_fn(has_strategy).accuracy]

\* Lines 102-104: the first guard raises.
mf_guard_raise ==
  /\ mf_pc = "guard"
  /\ tpu_predict_unsupported(mf_args.params.use_tpu, mf_args.mode)
  /\ mf_error' = "RuntimeError"
  /\ mf_pc' = "raised"
  /\ UNCHANGED <<mf_args, mf_model, mf_image, mf_result, cmVars, mainVars>>

\* Lines 102-103: the first guard lets the call through.
mf_guard_pass ==
  /\ mf_pc = "guard"
  /\ ~tpu_predict_unsupported(mf_args.params.use_tpu, mf_args.mode)
  /\ mf_pc' = "create"
  /\ UNCHANGED <<mf_args, mf_model, mf_image, mf_result, mf_error, cmVars, mainVars>>

\* Lines 106-109: the model is created and the image picked out of the features.
mf_create ==
  /\ mf_pc = "create"
  /\ mf_model' = create_model(mf_args.params.data_format, IMAGE_SIZE)
  /\ mf_image' = IF mf_args.features = "dict" THEN "features['image']" ELSE "features"
  /\ mf_pc' = "branch"
  /\ UNCHANGED <<mf_args, mf_result, mf_error, cmVars, mainVars>>

\* Lines 111-125: mode PREDICT, with the second guard at lines 112-113.
mf_predict ==
  /\ mf_pc = "branch"
  /\ mf_args.mode = PREDICT
  /\ IF mf_args.params.use_tpu
       THEN /\ mf_error' = "RuntimeError"
            /\ mf_pc' = "raised"
            /\ UNCHANGED mf_result
       ELSE /\ mf_result' = predict_spec(mf_args.mode)
            /\ mf_pc' = "returned"
            /\ UNCHANGED mf_error
  /\ UNCHANGED <<mf_args, mf_model, mf_image, cmVars, mainVars>>

\* Lines 126-147: mode TRAIN.
mf_train ==
  /\ mf_pc = "branch"
  /\ mf_args.mode # PREDICT
  /\ mf_args.mode = TRAIN
  /\ mf_result' = train_spec(mf_args.params.use_tpu, mf_args.mode)
  /\ mf_pc' = "returned"
  /\ UNCHANGED <<mf_args, mf_model, mf_image, mf_error, cmVars, mainVars>>

\* Lines 149-162: mode EVAL.
mf_eval ==
  /\ mf_pc = "branch"
  /\ mf_args.mode # PREDICT
  /\ mf_args.mode # TRAIN
  /\ mf_args.mode = EVAL
  /\ mf_result' = eval_spec(mf_args.params.use_tpu, mf_args.mode, mf_args.has_strategy)
  /\ mf_pc' = "returned"
  /\ UNCHANGED <<mf_args, mf_model, mf_image, mf_error, cmVars, mainVars>>

\* The arguments the estimator hands to model_fn: the features are a tensor or
\* a dictionary holding the tensor under 'image', the labels are absent in
\* PREDICT calls, and params is the dictionary built at line 172.
ModelFnArgs ==
  [features : {"tensor", "dict"},
   labels : {None, "labels"},
   mode : ModeKeys,
   params : [use_tpu : BOOLEAN, data_format : DataFormats],
   has_strategy : BOOLEAN]

NoArgs ==
  [features |-> None, labels |-> None, mode |-> None,
   params |-> [use_tpu |-> FALSE, data_format |-> None],
   has_strategy |-> FALSE]

\* ---------------------------------------------------- construct_estimator

NoStrategy == [kind |-> None, device |-> None, num_gpus |-> 0]

NoEstimator ==
  [kind |-> None, params |-> [use_tpu |-> FALSE, data_format |-> None],
   train_batch_size |-> 0, eval_batch_size |-> 0, train_distribute |-> NoStrategy]

\* A resolution of the default that looks at the GPUs only.
resolve_data_format_gpu_only(f, tpu) ==
  IF f.data_format = None
    THEN (IF f.num_gpus > 0 THEN "channels_first" ELSE "channels_last")
    ELSE f.data_format

\* Lines 166-170: the data format passed on to model_fn.
resolve_data_format(f, tpu) ==
  IF f.data_format = None
    THEN (IF f.num_gpus > 0 \/ tpu THEN "channels_first" ELSE "channels_last")
    ELSE f.data_format

\* A selection that mirrors only above two GPUs.
distribution_off_by_one(f) ==
  IF f.num_gpus = 0
    THEN [kind |-> "OneDeviceStrategy", device |-> "device:CPU:0", num_gpus |-> 0]
  ELSE IF f.num_gpus <= 2
    THEN [kind |-> "OneDeviceStrategy", device |-> "device:GPU:0", num_gpus |-> 0]
  ELSE [kind |-> "MirroredStrategy", device |-> None, num_gpus |-> f.num_gpus]

\* Lines 202-209: the distribution strategy of the plain estimator.
distribution(f) ==
  IF f.num_gpus = 0
    THEN [kind |-> "OneDeviceStrategy", device |-> "device:CPU:0", num_gpus |-> 0]
  ELSE IF f.num_gpus = 1
    THEN [kind |-> "OneDeviceStrategy", device |-> "device:GPU:0", num_gpus |-> 0]
  ELSE [kind |-> "MirroredStrategy", device |-> None, num_gpus |-> f.num_gpus]

\* Lines 165-219: the estimator returned for the flags.
construct_estimator(f, tpu) ==
  LET params == [use_tpu |-> tpu, data_format |-> resolve_data_format(f, tpu)]
  IN  IF tpu
        THEN [kind |-> "TPUEstimator", params |-> params,
              train_batch_size |-> f.batch_size,
              eval_batch_size |-> f.batch_size,
              train_distribute |-> NoStrategy]
        ELSE [kind |-> "Estimator", params |-> params,
              train_batch_size |-> 0, eval_batch_size |-> 0,
              train_distribute |-> distribution(f)]

\* -------------------------------------------------------------------- main

\* The command lines main is run on.
Flags ==
  [tpu : {None, "grpc://tpu"},
   num_gpus : 0..MaxGpus,
   data_format : {None} \cup DataFormats,
   batch_size : 1..MaxBatch,
   train_epochs : 0..MaxTrainEpochs,
   epochs_between_evals : 0..MaxBetweenEvals,
   export_dir : {None, "/tmp/export"}]

NoFlags ==
  [tpu |-> None, num_gpus |-> 0, data_format |-> None, batch_size |-> 0,
   train_epochs |-> 0, epochs_between_evals |-> 0, export_dir |-> None]

\* Names bound where line 234 is evaluated: main's locals. The module defines
\* create_model, metric_fn, model_fn, construct_estimator, main and
\* MNISTArgParser, and imports no input function.
NamesInScope ==
  {"parser", "flags", "use_tpu", "mnist_classifier", "train_hooks",
   "create_model", "metric_fn", "model_fn", "construct_estimator", "main",
   "MNISTArgParser", "LEARNING_RATE"}

\* A main that goes on to the loop without constructing the estimator.
main_construct_skipped ==
  /\ pc = "construct"
  /\ use_tpu' = (flags.tpu # None)
  /\ pc' = "range"
  /\ UNCHANGED <<flags, mnist_classifier, cycles, calls, error, cmVars, mfVars>>

\* Lines 224-226: use_tpu is computed and the estimator constructed.
main_construct ==
  /\ pc = "construct"
  /\ use_tpu' = (flags.tpu # None)
  /\ mnist_classifier' = construct_estimator(flags, flags.tpu # None)
  /\ calls' = Append(calls, "construct")
  /\ pc' = "range"
  /\ UNCHANGED <<flags, cycles, error, cmVars, mfVars>>

\* Line 233: the floor division raises on a zero divisor.
main_range_raise ==
  /\ pc = "range"
  /\ flags.epochs_between_evals = 0
  /\ error' = "ZeroDivisionError"
  /\ pc' = "raised"
  /\ UNCHANGED <<flags, use_tpu, mnist_classifier, cycles, calls, cmVars, mfVars>>

\* Lines 229-233: the hooks are built and the range of the loop computed.
main_range ==
  /\ pc = "range"
  /\ flags.epochs_between_evals # 0
  /\ cycles' = flags.train_epochs \div flags.epochs_between_evals
  /\ pc' = "loop"
  /\ UNCHANGED <<flags, use_tpu, mnist_classifier, calls, error, cmVars, mfVars>>

\* Line 233: the range has an element left, the body is entered.
main_loop_enter ==
  /\ pc = "loop"
  /\ cycles > 0
  /\ pc' = "train"
  /\ UNCHANGED <<flags, use_tpu, mnist_classifier, cycles, calls, error, cmVars, mfVars>>

\* Line 233: the range is empty, the loop is left.
main_loop_exit ==
  /\ pc = "loop"
  /\ cycles = 0
  /\ pc' = "export"
  /\ UNCHANGED <<flags, use_tpu, mnist_classifier, cycles, calls, error, cmVars, mfVars>>

\* Line 234: the arguments of the train call are evaluated before the call;
\* train_input_fn is bound nowhere, so the evaluation raises NameError and
\* the call is not made. Lines 235-240 are never reached.
main_train ==
  /\ pc = "train"
  /\ IF "train_input_fn" \in NamesInScope
       THEN /\ calls' = Append(calls, "train")
            /\ pc' = "evaluate"
            /\ UNCHANGED error
       ELSE /\ error' = "NameError"
            /\ pc' = "raised"
            /\ UNCHANGED calls
  /\ UNCHANGED <<flags, use_tpu, mnist_classifier, cycles, cmVars, mfVars>>

\* Lines 243-248: an export directory is given, the model is exported.
main_export ==
  /\ pc = "export"
  /\ flags.export_dir # None
  /\ calls' = Append(calls, "export")
  /\ pc' = "done"
  /\ UNCHANGED <<flags, use_tpu, mnist_classifier, cycles, error, cmVars, mfVars>>

\* Line 243: no export directory, main returns.
main_no_export ==
  /\ pc = "export"
  /\ flags.export_dir = None
  /\ pc' = "done"
  /\ UNCHANGED <<flags, use_tpu, mnist_classifier, cycles, calls, error, cmVars, mfVars>>

\* --------------------------------------------------------- specifications

cmIdle ==
  /\ cm_pc = "idle"
  /\ cm_args = [data_format |-> None, image_size |-> 0]
  /\ cm_result = <<>>
  /\ cm_error = None

mfIdle ==
  /\ mf_pc = "idle"
  /\ mf_args = NoArgs
  /\ mf_model = <<>>
  /\ mf_image = None
  /\ mf_result = NoSpec
  /\ mf_error = None

mainIdle ==
  /\ pc = "idle"
  /\ flags = NoFlags
  /\ use_tpu = FALSE
  /\ mnist_classifier = NoEstimator
  /\ cycles = 0
  /\ calls = <<>>
  /\ error = None

\* create_model is about to run on a data format and an image size.
InitCreateModel ==
  /\ cm_pc = "call"
  /\ cm_args \in [data_format : DataFormats \cup {"NCHW"},
                  image_size : 1..MaxImageSize]
  /\ cm_result = <<>>
  /\ cm_error = None
  /\ mfIdle
  /\ mainIdle

NextCreateModel == cm_return \/ cm_raise

SpecCreateModel == InitCreateModel /\ [][NextCreateModel]_vars

\* model_fn has been entered with its arguments bound.
InitModelFn ==
  /\ mf_pc = "guard"
  /\ mf_args \in ModelFnArgs
  /\ mf_model = <<>>
  /\ mf_image = None
  /\ mf_result = NoSpec
  /\ mf_error = None
  /\ cmIdle
  /\ mainIdle

NextModelFn ==
  \/ mf_guard_raise
  \/ mf_guard_pass
  \/ mf_create
  \/ mf_predict
  \/ mf_train
  \/ mf_eval

SpecModelFn == InitModelFn /\ [][NextModelFn]_vars

\* main has parsed its command line (lines 222-223).
InitMain ==
  /\ pc = "construct"
  /\ flags \in Flags
  /\ use_tpu = FALSE
  /\ mnist_classifier = NoEstimator
  /\ cycles = 0
  /\ calls = <<>>
  /\ error = None
  /\ cmIdle
  /\ mfIdle

NextMain ==
  \/ main_construct
  \/ main_range_raise
  \/ main_range
  \/ main_loop_enter
  \/ main_loop_exit
  \/ main_train
  \/ main_export
  \/ main_no_export

SpecMain == InitMain /\ [][NextMain]_vars

\* ------------------------------------------------------------------ claims

\* The number of calls of one kind made so far.
Count(call) == Cardinality({i \in 1..Len(calls) : calls[i] = call})

\* main has ended, by returning or by an uncaught exception.
MainEnded == pc \in {"done", "raised"}

\* C1: a model_fn call with use_tpu true and mode PREDICT ends in a
\* RuntimeError, raised while no model has been created and no spec returned;
\* a call with use_tpu false and mode PREDICT raises nothing, always has a next
\* step until it returns, and returns a spec.
C1_TpuPredictRaises ==
  mf_pc # "idle" =>
    /\ (mf_args.params.use_tpu /\ mf_args.mode = PREDICT) =>
         /\ mf_pc \in {"guard", "raised"}
         /\ mf_model = <<>>
         /\ mf_result = NoSpec
         /\ mf_pc = "guard" => ENABLED mf_guard_raise
         /\ mf_pc = "raised" => mf_error = "RuntimeError"
    /\ (~mf_args.params.use_tpu /\ mf_args.mode = PREDICT) =>
         /\ mf_pc # "raised"
         /\ mf_error = None
         /\ mf_pc # "returned" => ENABLED NextModelFn
         /\ mf_pc = "returned" => mf_result.kind \in {"EstimatorSpec", "TPUEstimatorSpec"}

\* A PREDICT call under TPU, with dictionary features, has raised.
C1_Witness ==
  /\ mf_pc = "raised"
  /\ mf_error = "RuntimeError"
  /\ mf_args.params.use_tpu
  /\ mf_args.mode = PREDICT
  /\ mf_args.features = "dict"

C3_NineLayers ==
  /\ (cm_pc # "idle" /\ cm_args.data_format \in DataFormats) => cm_pc # "raised"
  /\ cm_pc \in {"call", "raised"} => cm_result = <<>>
  /\ cm_pc = "returned" =>
       /\ Len(cm_result) = 9
       /\ [i \in 1..9 |-> cm_result[i].layer] =
            <<"Reshape", "Conv2D", "MaxPooling2D", "Conv2D", "MaxPooling2D",
              "Flatten", "Dense", "Dropout", "Dense">>
       /\ cm_result[2].units = 32
       /\ cm_result[4].units = 64
       /\ cm_result[7].units = 1024
       /\ cm_result[9].units = 10
       /\ cm_result[9].activation = None

\* create_model has returned for channels_first images of the MNIST size.
C3_Witness ==
  /\ cm_pc = "returned"
  /\ cm_args.data_format = "channels_first"
  /\ cm_args.image_size = IMAGE_SIZE
  /\ cm_result[1].shape = <<1, IMAGE_SIZE, IMAGE_SIZE>>

\* C4: when main has ended on a command line with a positive
\* epochs_between_evals, it has exported exactly once if an export directory
\* was given and never otherwise.
C4_ExportExactlyOnce ==
  (MainEnded /\ flags.epochs_between_evals > 0) =>
    Count("export") = (IF flags.export_dir # None THEN 1 ELSE 0)

\* C5: once the estimator is constructed, use_tpu tells whether a TPU was
\* named; with a TPU the estimator is a TPU estimator with both batch sizes
\* equal to the batch size flag, whatever num_gpus is; without, it is a plain
\* estimator on one CPU device for 0 GPUs, on GPU 0 for 1 GPU, and mirrored
\* over num_gpus devices otherwise.
C5_EstimatorOfFlags ==
  pc \notin {"idle", "construct"} =>
    /\ use_tpu = (flags.tpu # None)
    /\ mnist_classifier.params.use_tpu = use_tpu
    /\ use_tpu =>
         /\ mnist_classifier.kind = "TPUEstimator"
         /\ mnist_classifier.train_batch_size = flags.batch_size
         /\ mnist_classifier.eval_batch_size = flags.batch_size
    /\ ~use_tpu =>
         /\ mnist_classifier.kind = "Estimator"
         /\ flags.num_gpus = 0 =>
              /\ mnist_classifier.train_distribute.kind = "OneDeviceStrategy"
              /\ mnist_classifier.train_distribute.device = "device:CPU:0"
         /\ flags.num_gpus = 1 =>
              /\ mnist_classifier.train_distribute.kind = "OneDeviceStrategy"
              /\ mnist_classifier.train_distribute.device = "device:GPU:0"
         /\ flags.num_gpus \notin {0, 1} =>
              /\ mnist_classifier.train_distribute.kind = "MirroredStrategy"
              /\ mnist_classifier.train_distribute.num_gpus = flags.num_gpus

\* A plain estimator mirrored over two GPUs has been constructed.
C5_Witness ==
  /\ pc = "range"
  /\ flags.tpu = None
  /\ flags.num_gpus = 2
  /\ mnist_classifier.kind = "Estimator"
  /\ mnist_classifier.train_distribute.kind = "MirroredStrategy"

\* C6: when main has ended on a command line with a positive
\* epochs_between_evals, it has made as many train as evaluate calls and, no
\* stop threshold having been passed, exactly
\* train_epochs \div epochs_between_evals of each.
C6_CycleCount ==
  (MainEnded /\ flags.epochs_between_evals > 0) =>
    /\ Count("train") = Count("evaluate")
    /\ Count("train") <= flags.train_epochs \div flags.epochs_between_evals
    /\ Count("train") = flags.train_epochs \div flags.epochs_between_evals

\* C7: a loop whose threshold test has not reported the threshold passed goes
\* on to its cycle bound: main does not end with fewer evaluations than the
\* range of its loop has elements.
C7_LoopRunsToBound ==
  (MainEnded /\ error # "ZeroDivisionError") => Count("evaluate") = cycles

\* C8: a returned spec has the requested mode; for TRAIN and EVAL it is a TPU
\* spec exactly under use_tpu; a TRAIN spec has loss and train_op, an EVAL spec
\* loss and metrics keyed 'accuracy', a PREDICT spec predictions keyed
\* 'classes' and 'probabilities'; without use_tpu no call raises.
C8_SpecOfMode ==
  /\ (mf_pc # "idle" /\ ~mf_args.params.use_tpu) => mf_pc # "raised"
  /\ (mf_pc # "idle" /\ mf_args.mode \in {TRAIN, EVAL}) => mf_pc # "raised"
  /\ mf_pc = "returned" =>
       /\ mf_result.mode = mf_args.mode
       /\ mf_args.mode \in {TRAIN, EVAL} =>
            /\ mf_result.kind = "TPUEstimatorSpec" <=> mf_args.params.use_tpu
            /\ mf_result.kind = "EstimatorSpec" <=> ~mf_args.params.use_tpu
       /\ mf_args.mode = TRAIN => {"loss", "train_op"} \subseteq mf_result.args
       /\ mf_args.mode = EVAL =>
            /\ "loss" \in mf_result.args
            /\ mf_result.args \cap {"eval_metrics", "eval_metric_ops"} # {}
            /\ "accuracy" \in mf_result.metrics
       /\ mf_args.mode = PREDICT =>
            /\ "predictions" \in mf_result.args
            /\ mf_result.predictions = {"classes", "probabilities"}

\* An EVAL call under TPU has returned a TPU spec.
C8_Witness ==
  /\ mf_pc = "returned"
  /\ mf_args.mode = EVAL
  /\ mf_args.params.use_tpu
  /\ mf_result.kind = "TPUEstimatorSpec"
  /\ mf_result.metrics = {"accuracy"}

\* C9: the data format in the estimator's params is the data format flag when
\* one was given; without one it is channels_first when GPUs or a TPU are used
\* and channels_last otherwise; it is never None.
C9_DataFormat ==
  pc \notin {"idle", "construct"} =>
    /\ flags.data_format # None =>
         mnist_classifier.params.data_format = flags.data_format
    /\ (flags.data_format = None /\ (flags.num_gpus > 0 \/ use_tpu)) =>
         mnist_classifier.params.data_format = "channels_first"
    /\ (flags.data_format = None /\ ~(flags.num_gpus > 0 \/ use_tpu)) =>
         mnist_classifier.params.data_format = "channels_last"
    /\ mnist_classifier.params.data_format \in DataFormats

\* Without a data format flag and without GPUs, a TPU run has resolved the
\* data format to channels_first.
C9_Witness ==
  /\ pc = "range"
  /\ flags.data_format = None
  /\ flags.num_gpus = 0
  /\ flags.tpu # None
  /\ mnist_classifier.params.data_format = "channels_first"

====
